---- MODULE Spec2Model ----
(***************************************************************************)
(* Model of gopher-vision's gdat.py: byte stuffing (escape / unescape),    *)
(* the additive checksum, the packet decode pass (decode_packets), the     *)
(* per-channel resampling done by parse, and the s16 quantizer             *)
(* (get_scalars / encode_channel / the decode step of plot).               *)
(*                                                                         *)
(* Bytes are integers 0..255, byte strings are sequences of bytes.         *)
(* Python floats are modelled by exact rationals [n |-> num, d |-> den]    *)
(* with d > 0.  An attribute that may be None is [some |-> FALSE, ...].    *)
(***************************************************************************)
EXTENDS Integers, Sequences, FiniteSets

VARIABLES
    \* ---- escape / unescape round trip ----
    ein,        \* the byte string handed to escape()
    eout,       \* escape(ein)
    uout,       \* unescape(eout)
    epc,        \* position: "in", "escaped", "done", or "off"
    \* ---- parse / decode_packets ----
    stream,     \* the packets generate_data() put into the buffer (<<>> for raw buffers)
    buf,        \* the byte buffer handed to parse()
    parameters, \* the parameter registry: id -> [size, signed]
    packets,    \* bytes.split(START)
    i,          \* index of the candidate the decode loop is at
    errors,     \* decode_packets' error counter
    channels,   \* id -> channel record
    todo,       \* channels the interpolation loop of parse has not visited yet
    pc,         \* position: "start", "loop", "interp", "returned", "off", or where
                \* an exception left the program: "decode_raised", "parse_raised"
    \* ---- quantizer ----
    qch,        \* channel record seen by encode_channel(): v_int, v_enc, shift, scalar, divisor
    decoded,    \* plot()'s list of decoded values
    qpc         \* position: "in", "encoded", "failed", "plotted", "off"

vars == <<ein, eout, uout, epc, stream, buf, parameters, packets, i, errors,
          channels, todo, pc, qch, decoded, qpc>>

escVars == <<ein, eout, uout, epc>>
decVars == <<stream, buf, parameters, packets, i, errors, channels, todo, pc>>
quantVars == <<qch, decoded, qpc>>

(***************************************************************************)
(* Program constants                                                       *)
(***************************************************************************)
START == 126
ESC == 125
MIN_PACKET_LENGTH == 9
S16_MAX == 32767
S16_MIN == -32768

(***************************************************************************)
(* Bounds of the model                                                     *)
(***************************************************************************)
MaxEscLen == 4      \* longest byte string handed to escape()

\* bytes used to build inputs: plain bytes, both control bytes, their
\* escaped images (0x5D, 0x5E) and the extremes
EscAlphabet == {0, 93, 94, 125, 126, 255}

(***************************************************************************)
(* Byte helpers                                                            *)
(***************************************************************************)
\* b ^ 0x20 on a byte
Xor20(b) == IF (b \div 32) % 2 = 1 THEN b - 32 ELSE b + 32

\* sum of the bytes of s (split in halves to keep the recursion shallow)
RECURSIVE SumBytes(_)
SumBytes(s) ==
    IF Len(s) = 0 THEN 0
    ELSE IF Len(s) = 1 THEN s[1]
    ELSE LET m == Len(s) \div 2
         IN  SumBytes(SubSeq(s, 1, m)) + SumBytes(SubSeq(s, m + 1, Len(s)))

\* Python slice s[a:b] for 0 <= a, with 0-based half-open bounds
Slice(s, a, b) ==
    LET hi == IF b > Len(s) THEN Len(s) ELSE b
    IN  IF a >= hi THEN <<>> ELSE SubSeq(s, a + 1, hi)

\* int.from_bytes(s) (big endian, unsigned)
RECURSIVE from_bytes(_)
from_bytes(s) ==
    IF s = <<>> THEN 0 ELSE from_bytes(SubSeq(s, 1, Len(s) - 1)) * 256 + s[Len(s)]

SeqsUpTo(S, n) == UNION {[1..k -> S] : k \in 0..n}

(***************************************************************************)
(* escape / unescape                                                       *)
(***************************************************************************)
\* escape() without the XOR of the escaped byte
RECURSIVE EscBodyNoXor(_)
EscBodyNoXor(s) ==
    IF s = <<>> THEN <<>>
    ELSE (IF Head(s) = ESC \/ Head(s) = START THEN <<ESC, Head(s)>> ELSE <<Head(s)>>)
         \o EscBodyNoXor(Tail(s))

escape_noxor(packet) ==
    <<START>> \o EscBodyNoXor(IF packet = <<>> THEN <<>> ELSE Tail(packet))

\* the loop body of escape() over packet[1:]
RECURSIVE EscBody(_)
EscBody(s) ==
    IF s = <<>> THEN <<>>
    ELSE (IF Head(s) = ESC \/ Head(s) = START
             THEN <<ESC, Xor20(Head(s))>>
             ELSE <<Head(s)>>)
         \o EscBody(Tail(s))

\* escape(packet): the result starts with START, whatever packet[0] is
escape(packet) ==
    <<START>> \o EscBody(IF packet = <<>> THEN <<>> ELSE Tail(packet))

\* the loop of unescape() without the XOR of the escaped byte
UnescStepNoXor(packet, st) ==
    IF st.k > Len(packet) THEN st
    ELSE IF packet[st.k] = ESC
         THEN IF st.k + 1 > Len(packet)
                 THEN [p |-> st.p, k |-> Len(packet) + 1]
                 ELSE [p |-> Append(st.p, packet[st.k + 1]), k |-> st.k + 2]
         ELSE [p |-> Append(st.p, packet[st.k]), k |-> st.k + 1]

\* one pass through the while loop of unescape(); the loop state is the
\* output p and the 1-based index k, and the pass is the identity once the
\* loop has ended
UnescStep(packet, st) ==
    IF st.k > Len(packet) THEN st
    ELSE IF packet[st.k] = ESC
         THEN IF st.k + 1 > Len(packet)
                 THEN [p |-> st.p, k |-> Len(packet) + 1]
                 ELSE [p |-> Append(st.p, Xor20(packet[st.k + 1])), k |-> st.k + 2]
         ELSE [p |-> Append(st.p, packet[st.k]), k |-> st.k + 1]

\* n passes through the loop (split in halves to keep the recursion shallow)
RECURSIVE UnescLoop(_, _, _)
UnescLoop(packet, st, n) ==
    IF n = 0 THEN st
    ELSE IF n = 1 THEN UnescStep(packet, st)
    ELSE LET half == UnescLoop(packet, st, n \div 2)
         IN  IF half.k > Len(packet) THEN half
             ELSE UnescLoop(packet, half, n - n \div 2)

\* unescape(packet): the loop ends after at most len(packet) passes
unescape(packet) == UnescLoop(packet, [p |-> <<>>, k |-> 1], Len(packet)).p

(***************************************************************************)
(* The escape round trip as a program: b -> escape(b) -> unescape(...)     *)
(***************************************************************************)
None == [some |-> FALSE, val |-> <<>>]
Some(s) == [some |-> TRUE, val |-> s]

\* a channel record as parse() builds it (name and unit are carried along
\* unchanged by every operation and are left out)
NewChannel(id) ==
    [id |-> id, shift |-> 0, scalar |-> 0, divisor |-> 0, offset |-> 0,
     sample_rate |-> 0, points |-> <<>>,
     t_raw |-> None, v_raw |-> None, t_int |-> None, v_int |-> None, v_enc |-> None]

DecOff ==
    /\ stream = <<>> /\ buf = <<>> /\ parameters = <<>> /\ packets = <<>>
    /\ i = 0 /\ errors = 0 /\ channels = <<>> /\ todo = {} /\ pc = "off"

EscOff == ein = <<>> /\ eout = <<>> /\ uout = <<>> /\ epc = "off"

QuantOff == qch = NewChannel(0) /\ decoded = <<>> /\ qpc = "off"

InitEsc ==
    /\ ein \in SeqsUpTo(EscAlphabet, MaxEscLen)
    /\ eout = <<>> /\ uout = <<>> /\ epc = "in"
    /\ DecOff /\ QuantOff

Escape ==
    /\ epc = "in"
    /\ eout' = escape(ein)
    /\ epc' = "escaped"
    /\ UNCHANGED <<ein, uout, decVars, quantVars>>

Unescape ==
    /\ epc = "escaped"
    /\ uout' = unescape(eout)
    /\ epc' = "done"
    /\ UNCHANGED <<ein, eout, decVars, quantVars>>

NextEsc == Escape \/ Unescape

SpecEsc == InitEsc /\ [][NextEsc]_vars

\* C2 (as stated): for all byte sequences b, unescape(escape(b)) = b.
C2_RoundTripAll == epc = "done" => uout = ein

\* C2 (amended): for every byte sequence b that starts with the delimiter
\* 0x7E, unescape(escape(b)) = b.
C2_RoundTripFramed ==
    (epc = "done" /\ ein # <<>> /\ ein[1] = START) => uout = ein

\* a framed input holding both control bytes has made the round trip
C2_Witness ==
    /\ epc = "done" /\ Len(ein) >= 3 /\ ein[1] = START
    /\ \E k \in 2..Len(ein) : ein[k] = START
    /\ \E k \in 2..Len(ein) : ein[k] = ESC
    /\ Len(eout) = Len(ein) + 2
    /\ uout = ein

(***************************************************************************)
(* Packets: struct.pack / struct.unpack, generate_packet, generate_data    *)
(***************************************************************************)
MaxPackets == 2     \* longest stream of well-formed packets
MaxMixed == 1       \* well-formed packets in front of a malformed one
MaxFuzzLen == 3     \* longest raw buffer over FuzzAlphabet
LongLen == 258      \* length of the long delimiter-free buffers

\* wire formats: big-endian integers ('>b', '>H', '>h', '>i', '>q')
FmtI8 == [size |-> 1, signed |-> TRUE]
FmtU16 == [size |-> 2, signed |-> FALSE]
FmtI16 == [size |-> 2, signed |-> TRUE]
FmtI32 == [size |-> 4, signed |-> TRUE]
FmtI64 == [size |-> 8, signed |-> TRUE]

\* registries the model is run with; 32126 = 0x7D7E, 126 = 0x7E
RegA == [id \in {1, 32126} |-> IF id = 1 THEN FmtI8 ELSE FmtU16]
RegB == [id \in {1, 2} |-> IF id = 1 THEN FmtI16 ELSE FmtI32]
RegC == [id \in {126} |-> FmtI64]
Registries == {RegA, RegB, RegC}

\* values generate_packet packs; their bytes include 0x7D, 0x7E, 0xFE, 0xFF
ValuesOf(fmt) ==
    IF fmt = FmtI8 THEN {-2, -1, 125, 126}
    ELSE IF fmt = FmtU16 THEN {10, 32126, 65535}
    ELSE IF fmt = FmtI16 THEN {-1, 10, 32381}
    ELSE IF fmt = FmtI32 THEN {-1, 32382}
    ELSE {-1, 126}

Timestamps == {0, 125, 126}
UnknownIds == {3, 125}
FuzzAlphabet == {0, 125, 126, 255}
LongFills == {0, 125, 255}

\* n big-endian bytes of v, two's complement (value.to_bytes / struct.pack)
RECURSIVE to_bytes(_, _)
to_bytes(v, n) == IF n = 0 THEN <<>> ELSE to_bytes(v \div 256, n - 1) \o <<v % 256>>

\* struct.pack(format, value): the value is in the format's range
pack(fmt, value) == to_bytes(value, fmt.size)

\* int.from_bytes(s, signed=True): the first byte carries the sign
from_bytes_signed(s) ==
    IF s = <<>> THEN 0
    ELSE IF s[1] >= 128 THEN from_bytes(<<s[1] - 256>> \o Tail(s))
    ELSE from_bytes(s)

\* generate_packet(param) with the timestamp and the data it draws made
\* explicit: START, '>I' timestamp, '>H' id, packed value, low byte of the sum
generate_packet(ts, id, fmt, value) ==
    LET body == <<START>> \o to_bytes(ts, 4) \o to_bytes(id, 2) \o pack(fmt, value)
    IN  body \o <<SumBytes(body) % 256>>

\* one element of a stream: what was generated and the bytes put on the wire
Elem(kind, ts, id, value, wire) ==
    [kind |-> kind, ts |-> ts, id |-> id, value |-> value, wire |-> wire]

\* well-formed packets for a registry, escaped as generate_data does
OkOn(reg, tss) ==
    UNION {{Elem("ok", ts, id, v, escape(generate_packet(ts, id, reg[id], v)))
              : ts \in tss, v \in ValuesOf(reg[id])} : id \in DOMAIN reg}

OkPackets(reg) == OkOn(reg, Timestamps)

\* a few well-formed packets to put around a malformed one
OkFew(reg) == {e \in OkOn(reg, {125}) : e.value \in {-1, 10}}

SetLast(p, c) == [p EXCEPT ![Len(p)] = c]

\* replacements for the checksum byte c that differ from it
CorruptLast(c) == {(c + 1) % 256, (c + 130) % 256, ESC, START} \ {c}

\* well-formed packets whose last byte was changed
BadSum(reg) ==
    UNION {UNION {{Elem("badsum", ts, id, v,
                        escape(SetLast(generate_packet(ts, id, reg[id], v), c)))
                     : c \in CorruptLast(generate_packet(ts, id, reg[id], v)[7 + reg[id].size + 1])}
                  : ts \in {0, 125}, v \in ValuesOf(reg[id])} : id \in DOMAIN reg}

\* header-only packets (8 bytes: no payload), with a matching or a wrong checksum
NoPayload(reg) ==
    {Elem("nopayload", ts, id, 0,
          escape(LET body == <<START>> \o to_bytes(ts, 4) \o to_bytes(id, 2)
                 IN  body \o <<(SumBytes(body) + d) % 256>>))
       : ts \in Timestamps, id \in (DOMAIN reg) \cup {3}, d \in {0, 1}}

\* structurally valid packets whose id is not in the registry
Unknown(reg) ==
    {Elem("unknown", 0, id, v, escape(generate_packet(0, id, FmtI8, v)))
       : id \in UnknownIds \ DOMAIN reg, v \in ValuesOf(FmtI8)}

\* packets with a correct checksum whose payload is one byte too long
BadLen(reg) ==
    UNION {{Elem("badlen", 0, id, v,
                 escape(LET body == <<START>> \o to_bytes(0, 4) \o to_bytes(id, 2)
                                    \o pack(reg[id], v) \o <<0>>
                        IN  body \o <<SumBytes(body) % 256>>))
              : v \in ValuesOf(reg[id])} : id \in DOMAIN reg}

\* well-formed packets cut short on the wire
Truncated(reg) ==
    UNION {{Elem("truncated", e.ts, e.id, e.value, SubSeq(e.wire, 1, n))
              : n \in 0..(Len(e.wire) - 1)}
             : e \in {o \in OkOn(reg, {126}) : o.value \in {-1, 10}}}

Malformed(reg) ==
    BadSum(reg) \cup NoPayload(reg) \cup Unknown(reg) \cup BadLen(reg) \cup Truncated(reg)

NonEmptySeqsUpTo(S, n) == SeqsUpTo(S, n) \ {<<>>}

Streams(reg) ==
    NonEmptySeqsUpTo(OkPackets(reg), MaxPackets)
    \cup {pre \o <<m>> \o post : pre \in SeqsUpTo(OkFew(reg), MaxMixed),
                                 m \in Malformed(reg),
                                 post \in SeqsUpTo(OkFew(reg), 1)}

\* raw buffers: short ones over FuzzAlphabet and long delimiter-free ones
RawBuffers ==
    SeqsUpTo(FuzzAlphabet, MaxFuzzLen)
    \cup {[k \in 1..LongLen |-> f] : f \in LongFills}
    \cup {[k \in 1..LongLen |-> IF k = LongLen THEN START + 93 ELSE IF k = 1 THEN 93 ELSE 0]}

\* generate_data: the concatenation of the escaped packets
RECURSIVE generate_data(_)
generate_data(st) ==
    IF st = <<>> THEN <<>> ELSE Head(st).wire \o generate_data(Tail(st))

(***************************************************************************)
(* checksum and decode_packets                                             *)
(***************************************************************************)
\* bytes.split(START)
RECURSIVE split(_)
split(s) ==
    IF \A k \in 1..Len(s) : s[k] # START
       THEN <<s>>
       ELSE LET k == CHOOSE k \in 1..Len(s) :
                        s[k] = START /\ \A j \in 1..(k - 1) : s[j] # START
            IN  <<SubSeq(s, 1, k - 1)>> \o split(SubSeq(s, k + 1, Len(s)))

\* (sum).to_bytes(2) raises OverflowError when the sum needs more than 2 bytes
checksum_raises(packet) == SumBytes(Slice(packet, 0, Len(packet) - 1)) >= 65536

\* checksum() that leaves the start delimiter out of the sum
checksum_nodelim(packet) ==
    SumBytes(Slice(packet, 1, Len(packet) - 1)) % 256 = packet[Len(packet)]

\* checksum(packet), when it does not raise
checksum(packet) ==
    SumBytes(Slice(packet, 0, Len(packet) - 1)) % 256 = packet[Len(packet)]

\* struct.unpack that pads a short payload instead of raising
unpack_raises_short_ok(fmt, data) == Len(data) > fmt.size

\* struct.unpack(format, data) raises struct.error unless len(data) is the format's size
unpack_raises(fmt, data) == Len(data) # fmt.size

\* struct.unpack(format, data)[0]
unpack(fmt, data) == IF fmt.signed THEN from_bytes_signed(data) ELSE from_bytes(data)

\* the candidate the loop is at: p = unescape(START + p)
Candidate == unescape(<<START>> \o packets[i])

PacketTs(p) == from_bytes(Slice(p, 1, 5))
PacketId(p) == from_bytes(Slice(p, 5, 7))
PacketData(p) == Slice(p, 7, Len(p) - 1)

\* the try block raises: KeyError for an unknown id, struct.error for a bad length
TryRaises(p) ==
    IF PacketId(p) \notin DOMAIN parameters
       THEN TRUE
       ELSE unpack_raises(parameters[PacketId(p)], PacketData(p))

InLoop == pc = "loop" /\ i <= Len(packets)

\* parse(): build the channels, then decode_packets() splits the buffer
ParseBegin ==
    /\ pc = "start"
    /\ channels' = [id \in DOMAIN parameters |-> NewChannel(id)]
    /\ packets' = split(buf)
    /\ errors' = 0
    /\ i' = 1
    /\ pc' = "loop"
    /\ UNCHANGED <<stream, buf, parameters, todo, escVars, quantVars>>

CountError ==
    /\ errors' = errors + 1
    /\ i' = i + 1
    /\ UNCHANGED <<stream, buf, parameters, packets, channels, todo, pc, escVars, quantVars>>

\* a length check that skips the candidate without counting it
TooSmallUncounted ==
    /\ InLoop
    /\ Len(Candidate) < MIN_PACKET_LENGTH - 1
    /\ i' = i + 1
    /\ UNCHANGED <<stream, buf, parameters, packets, errors, channels, todo, pc,
                   escVars, quantVars>>

\* len(p) < MIN_PACKET_LENGTH - 1
TooSmall ==
    /\ InLoop
    /\ Len(Candidate) < MIN_PACKET_LENGTH - 1
    /\ CountError

\* checksum(p) raises OverflowError, which nothing catches
ChecksumOverflow ==
    /\ InLoop
    /\ Len(Candidate) >= MIN_PACKET_LENGTH - 1
    /\ checksum_raises(Candidate)
    /\ pc' = "decode_raised"
    /\ UNCHANGED <<stream, buf, parameters, packets, i, errors, channels, todo,
                   escVars, quantVars>>

BadChecksum ==
    /\ InLoop
    /\ Len(Candidate) >= MIN_PACKET_LENGTH - 1
    /\ ~checksum_raises(Candidate)
    /\ ~checksum(Candidate)
    /\ CountError

DecodeFailed ==
    /\ InLoop
    /\ Len(Candidate) >= MIN_PACKET_LENGTH - 1
    /\ ~checksum_raises(Candidate)
    /\ checksum(Candidate)
    /\ TryRaises(Candidate)
    /\ CountError

AddPoint ==
    /\ InLoop
    /\ Len(Candidate) >= MIN_PACKET_LENGTH - 1
    /\ ~checksum_raises(Candidate)
    /\ checksum(Candidate)
    /\ ~TryRaises(Candidate)
    /\ LET p == Candidate
           id == PacketId(p)
           value == unpack(parameters[id], PacketData(p))
       IN  channels' = [channels EXCEPT
                          ![id].points = Append(@, <<PacketTs(p), value>>)]
    /\ i' = i + 1
    /\ UNCHANGED <<stream, buf, parameters, packets, errors, todo, pc, escVars, quantVars>>

\* the loop is over: decode_packets prints (len(packets), errors) and returns
\* into parse, which goes on to visit every channel
DecodeDone ==
    /\ pc = "loop"
    /\ i > Len(packets)
    /\ pc' = "interp"
    /\ todo' = DOMAIN channels
    /\ UNCHANGED <<stream, buf, parameters, packets, i, errors, channels, escVars, quantVars>>

(***************************************************************************)
(* parse: sort, linspace, interp, sample_rate                              *)
(***************************************************************************)
Abs(x) == IF x < 0 THEN -x ELSE x

RECURSIVE GCD(_, _)
GCD(a, b) == IF b = 0 THEN Abs(a) ELSE GCD(b, a % Abs(b))

\* the rational n/d in lowest terms with a positive denominator
Rat(n, d) ==
    LET g == GCD(n, d)
        sgn == IF d < 0 THEN -1 ELSE 1
    IN  [n |-> sgn * (n \div g), d |-> sgn * (d \div g)]

RatLess(x, y) == x.n * y.d < y.n * x.d
RatLeq(x, y) == x.n * y.d <= y.n * x.d

\* list.sort(key=lambda pt: pt[0]) is stable
RECURSIVE InsertByTs(_, _)
InsertByTs(s, pt) ==
    IF s = <<>> THEN <<pt>>
    ELSE IF s[Len(s)][1] <= pt[1] THEN Append(s, pt)
    ELSE Append(InsertByTs(SubSeq(s, 1, Len(s) - 1), pt), s[Len(s)])

RECURSIVE SortFirst(_, _)
SortFirst(points, n) ==
    IF n = 0 THEN <<>> ELSE InsertByTs(SortFirst(points, n - 1), points[n])

sort_points(points) == SortFirst(points, Len(points))

\* np.linspace(0, stop, num=num): num = 1 gives [0.]
linspace(stop, num) ==
    IF num = 1 THEN <<Rat(0, 1)>>
    ELSE [k \in 1..num |-> Rat((k - 1) * stop, num - 1)]

\* np.interp(x, xp, fp) at one point x, for xp sorted (duplicates allowed):
\* left of xp[0] it is fp[0]; otherwise j is the last index with xp[j] <= x
interp(x, xp, fp) ==
    LET L == Len(xp)
    IN  IF L = 1 THEN Rat(fp[1], 1)
        ELSE IF x.n < xp[1] * x.d THEN Rat(fp[1], 1)
        ELSE IF x.n > xp[L] * x.d THEN Rat(fp[L], 1)
        ELSE LET j == CHOOSE j \in 1..L :
                         /\ xp[j] * x.d <= x.n
                         /\ \A k \in (j + 1)..L : xp[k] * x.d > x.n
             IN  IF j = L THEN Rat(fp[L], 1)
                 ELSE IF xp[j] * x.d = x.n THEN Rat(fp[j], 1)
                 ELSE LET dx == xp[j + 1] - xp[j]
                      IN  Rat(fp[j] * dx * x.d + (fp[j + 1] - fp[j]) * (x.n - xp[j] * x.d),
                              dx * x.d)

\* Python's round(n / d) for d > 0: ties go to the even integer
RoundHalfEven(n, d) ==
    LET q == n \div d
        r == n % d
    IN  IF 2 * r < d THEN q
        ELSE IF 2 * r > d THEN q + 1
        ELSE IF q % 2 = 0 THEN q ELSE q + 1

\* lines 171-176 on one channel: sort, unzip, linspace, interp
Resampled(ch) ==
    LET pts == sort_points(ch.points)
        t_raw == [k \in 1..Len(pts) |-> pts[k][1]]
        v_raw == [k \in 1..Len(pts) |-> pts[k][2]]
        t_int == linspace(t_raw[Len(t_raw)], Len(t_raw))
        v_int == [k \in 1..Len(t_int) |-> interp(t_int[k], t_raw, v_raw)]
    IN  [ch EXCEPT !.points = pts, !.t_raw = Some(t_raw), !.v_raw = Some(v_raw),
                   !.t_int = Some(t_int), !.v_int = Some(v_int)]

\* line 177 divides by t_int[-1] / 1000: with t_int[-1] = 0 the quotient is
\* inf and round(inf) raises OverflowError
SampleRateRaises(ch) == ch.t_int.val[Len(ch.t_int.val)].n = 0

\* round(len(v_int) / (t_int[-1] / 1000))
SampleRate(ch) ==
    LET last == ch.t_int.val[Len(ch.t_int.val)]
    IN  RoundHalfEven(1000 * Len(ch.v_int.val) * last.d, last.n)

InterpVars == <<stream, buf, parameters, packets, i, errors, escVars, quantVars>>

\* the loop over channels.values(); the order is the registry's and is left open
InterpSkip(id) ==
    /\ pc = "interp" /\ id \in todo
    /\ Len(channels[id].points) = 0
    /\ todo' = todo \ {id}
    /\ UNCHANGED <<channels, pc, InterpVars>>

InterpChannel(id) ==
    /\ pc = "interp" /\ id \in todo
    /\ Len(channels[id].points) # 0
    /\ ~SampleRateRaises(Resampled(channels[id]))
    /\ channels' = [channels EXCEPT ![id] =
                      [Resampled(@) EXCEPT !.sample_rate = SampleRate(Resampled(channels[id]))]]
    /\ todo' = todo \ {id}
    /\ UNCHANGED <<pc, InterpVars>>

InterpRaise(id) ==
    /\ pc = "interp" /\ id \in todo
    /\ Len(channels[id].points) # 0
    /\ SampleRateRaises(Resampled(channels[id]))
    /\ channels' = [channels EXCEPT ![id] = Resampled(@)]
    /\ pc' = "parse_raised"
    /\ UNCHANGED <<todo, InterpVars>>

\* parse() that drops the channels without samples before returning
ParseReturnPruned ==
    /\ pc = "interp" /\ todo = {}
    /\ pc' = "returned"
    /\ channels' = [id \in {c \in DOMAIN channels : Len(channels[c].points) # 0}
                      |-> channels[id]]
    /\ UNCHANGED <<todo, InterpVars>>

\* return channels
ParseReturn ==
    /\ pc = "interp" /\ todo = {}
    /\ pc' = "returned"
    /\ UNCHANGED <<channels, todo, InterpVars>>

InitDec ==
    /\ \E reg \in Registries :
         /\ parameters = reg
         /\ \/ \E st \in Streams(reg) : stream = st /\ buf = generate_data(st)
            \/ stream = <<>> /\ buf \in RawBuffers
    /\ packets = <<>> /\ i = 0 /\ errors = 0 /\ channels = <<>> /\ todo = {}
    /\ pc = "start"
    /\ EscOff /\ QuantOff

Next ==
    \/ ParseBegin
    \/ TooSmall
    \/ ChecksumOverflow
    \/ BadChecksum
    \/ DecodeFailed
    \/ AddPoint
    \/ DecodeDone
    \/ \E id \in todo : InterpSkip(id)
    \/ \E id \in todo : InterpChannel(id)
    \/ \E id \in todo : InterpRaise(id)
    \/ ParseReturn

Spec == InitDec /\ [][Next]_vars

(***************************************************************************)
(* Properties of decode_packets and parse                                  *)
(***************************************************************************)
\* the loop of decode_packets has gone through the whole buffer
DecodeComplete ==
    \/ pc = "loop" /\ i > Len(packets)
    \/ pc \in {"interp", "returned", "parse_raised"}

\* the state in which decode_packets prints its report and returns
DecodeReturns == pc = "loop" /\ i > Len(packets)

RECURSIVE SumOver(_, _)
SumOver(f, S) ==
    IF S = {} THEN 0
    ELSE LET x == CHOOSE x \in S : TRUE IN f[x] + SumOver(f, S \ {x})

\* number of samples appended over all channels
ValidCount == SumOver([id \in DOMAIN channels |-> Len(channels[id].points)], DOMAIN channels)

AllOk(st) == st # <<>> /\ \A k \in 1..Len(st) : st[k].kind = "ok"

\* the samples the generated packets of one id carry, in stream order
ExpectedPoints(st, id) ==
    LET sel == SelectSeq(st, LAMBDA e : e.id = id)
    IN  [k \in 1..Len(sel) |-> <<sel[k].ts, sel[k].value>>]

\* C1: decode_packets never raises, whatever the buffer and the registry.
C1_DecodeNeverRaises == pc # "decode_raised"

\* C3: decoding the concatenation of the escape() encodings of well-formed
\* packets appends, per packet and in stream order, exactly (timestamp, value)
\* to that packet's channel and nothing to any other channel.
C3_WellFormedDecoded ==
    (DecodeReturns /\ AllOk(stream)) =>
        \A id \in DOMAIN channels : channels[id].points = ExpectedPoints(stream, id)

\* two packets whose timestamp, id, payload and checksum hold 0x7D / 0x7E
\* have been decoded: (126, 0x7D7E) on channel 0x7D7E, and a packet on
\* channel 1 whose checksum byte is 0x7E
C3_Witness ==
    /\ DecodeReturns /\ AllOk(stream) /\ Len(stream) = 2
    /\ stream[1].id = 32126 /\ stream[1].ts = 126 /\ stream[1].value = 32126
    /\ stream[2].id = 1 /\ stream[2].ts = 0 /\ stream[2].value = -1
    /\ SubSeq(stream[2].wire, Len(stream[2].wire) - 1, Len(stream[2].wire)) = <<ESC, 94>>
    /\ channels[32126].points = <<<<126, 32126>>>>
    /\ channels[1].points = <<<<0, -1>>>>

\* C4: a buffer that is exactly one well-formed packet of a registered id
\* decodes with zero errors and exactly one sample.
C4_SinglePacketNoErrors ==
    (DecodeReturns /\ AllOk(stream) /\ Len(stream) = 1) =>
        (errors = 0 /\ ValidCount = 1)

\* C5: every candidate is accounted for exactly once, as one sample or as one
\* error: during the pass the candidates gone through, and after it
\* packets_seen, equal valid_count + errors.
C5_Accounting ==
    /\ pc = "loop" => i - 1 = ValidCount + errors
    /\ DecodeReturns => Len(packets) = ValidCount + errors

\* a pass over a stream with good and bad packets has completed
C5_Witness ==
    /\ DecodeReturns /\ Len(packets) = 4
    /\ ValidCount = 2 /\ errors = 2
    /\ \E k \in 1..Len(stream) : stream[k].kind = "badsum"

\* the candidate is a packet of a registered id with the declared payload
\* width whose last byte is not the checksum of the bytes before it
CorruptedValid(p) ==
    /\ Len(p) >= MIN_PACKET_LENGTH
    /\ PacketId(p) \in DOMAIN parameters
    /\ Len(p) = 8 + parameters[PacketId(p)].size
    /\ SumBytes(SubSeq(p, 1, Len(p) - 1)) % 256 # p[Len(p)]

\* C6: a candidate is accepted only if the sum mod 256 of its unescaped bytes
\* but the last (delimiter included) equals its last byte; an otherwise-valid
\* packet with a changed last byte counts one error and appends no sample.
C6_ChecksumGate ==
    [][InLoop =>
         /\ (channels' # channels) =>
                SumBytes(SubSeq(Candidate, 1, Len(Candidate) - 1)) % 256
                    = Candidate[Len(Candidate)]
         /\ CorruptedValid(Candidate) => (errors' = errors + 1 /\ channels' = channels)
      ]_vars

\* a packet with a changed last byte went through the pass: one error for the
\* empty piece before the first delimiter, one for the packet, no sample
C6_Witness ==
    /\ DecodeReturns /\ Len(stream) = 1 /\ stream[1].kind = "badsum"
    /\ Len(packets) = 2 /\ errors = 2 /\ ValidCount = 0

C8_GridStrictlyIncreasing ==
    \A id \in DOMAIN channels :
        channels[id].t_int.some =>
            LET t == channels[id].t_int.val
            IN  /\ \A k \in 1..(Len(t) - 1) : RatLess(t[k], t[k + 1])
                /\ \A k \in 1..(Len(t) - 2) :
                     (t[k + 1].n * t[k].d - t[k].n * t[k + 1].d) * (t[k + 2].d * t[k + 1].d)
                       = (t[k + 2].n * t[k + 1].d - t[k + 1].n * t[k + 2].d) * (t[k + 1].d * t[k].d)

\* C10: a candidate whose unescaped length is below 9 is rejected: one more
\* error and no sample, for registries with formats of width 1, 2, 4 or 8.
C10_ShortRejected ==
    [][(InLoop /\ Len(Candidate) < MIN_PACKET_LENGTH) =>
          (errors' = errors + 1 /\ channels' = channels)]_vars

\* an 8-byte candidate of a registered id with an empty payload and a matching
\* checksum went through the pass and was counted as an error
C10_Witness ==
    /\ DecodeReturns /\ Len(stream) = 1 /\ stream[1].kind = "nopayload"
    /\ stream[1].id \in DOMAIN parameters
    /\ Len(unescape(stream[1].wire)) = 8
    /\ SumBytes(SubSeq(unescape(stream[1].wire), 1, 7)) % 256 = unescape(stream[1].wire)[8]
    /\ errors = 2 /\ ValidCount = 0

(***************************************************************************)
(* Quantizer: get_scalars, encode_channel and the decode step of plot      *)
(*                                                                         *)
(* Floats are exact rationals here, so 10**-shift, the divisions and the   *)
(* products are exact.  Products are arranged so that every intermediate   *)
(* value stays below 2^31.                                                 *)
(***************************************************************************)
MaxGrid == 2        \* longest resampled series handed to encode_channel()

\* sample values on the grid (all within the range of '>h' / '>H')
QValues == {-32768, -20000, -100, -1, 0, 1, 7, 100, 3000, 20000, 32767, 65535}

Sign(x) == IF x < 0 THEN -1 ELSE IF x > 0 THEN 1 ELSE 0

\* x * 10 and x / 10 on a reduced rational, cancelling before multiplying
Times10(x) ==
    IF x.d % 10 = 0 THEN [n |-> x.n, d |-> x.d \div 10]
    ELSE IF x.d % 5 = 0 THEN [n |-> 2 * x.n, d |-> x.d \div 5]
    ELSE IF x.d % 2 = 0 THEN [n |-> 5 * x.n, d |-> x.d \div 2]
    ELSE [n |-> 10 * x.n, d |-> x.d]

Div10(x) ==
    IF x.n % 10 = 0 THEN [n |-> x.n \div 10, d |-> x.d]
    ELSE IF x.n % 5 = 0 THEN [n |-> x.n \div 5, d |-> 2 * x.d]
    ELSE IF x.n % 2 = 0 THEN [n |-> x.n \div 2, d |-> 5 * x.d]
    ELSE [n |-> x.n, d |-> 10 * x.d]

\* x * 10^s, i.e. x / 10**-s
RECURSIVE Scale10(_, _)
Scale10(x, s) ==
    IF s = 0 THEN x
    ELSE IF s > 0 THEN Scale10(Times10(x), s - 1)
    ELSE Scale10(Div10(x), s + 1)

\* |x| * 10^s >= m for an integer m > 0, decided without forming the product
\* (TRUE only if it is so)
RECURSIVE AtLeastTimes10(_, _, _)
AtLeastTimes10(x, s, m) ==
    IF Abs(x.n) \div x.d >= m THEN TRUE
    ELSE IF s <= 0 THEN FALSE
    ELSE AtLeastTimes10(x, s - 1, (m + 9) \div 10)

\* Fraction.limit_denominator: the continued-fraction loop
RECURSIVE LimitLoop(_, _, _, _, _, _, _, _)
LimitLoop(p0, q0, p1, q1, n, d, D, maxd) ==
    LET a == n \div d
        q2 == q0 + a * q1
    IN  IF q2 > maxd
           THEN LET k == (maxd - q0) \div q1
                IN  IF d * (q0 + k * q1) <= D \div 2
                       THEN Rat(p1, q1)
                       ELSE Rat(p0 + k * p1, q0 + k * q1)
           ELSE LimitLoop(p1, q1, p0 + a * p1, q2, d, n - a * d, D, maxd)

\* Fraction(x).limit_denominator(maxd): the closest fraction to x with a
\* denominator of at most maxd
limit_denominator(x, maxd) ==
    IF x.d <= maxd THEN x
    ELSE LimitLoop(0, 1, 1, 0, x.n, x.d, x.d, maxd)

Scalars(shift, scalar, divisor) ==
    [ok |-> TRUE, shift |-> shift, scalar |-> scalar, divisor |-> divisor]

NoScalars == [ok |-> FALSE, shift |-> 0, scalar |-> 0, divisor |-> 0]

\* the for loop of get_scalars from `shift` downwards; NoScalars stands for
\* the exception raised when the loop runs out.
\* When |scale| >= 65535 the closest fraction scalar/divisor is beyond
\* +-65534.5, so scalar does not fit an s16 and round(divisor * adj), which
\* is round(32767 / (scalar/divisor)), is 0: the iteration ends without a
\* break.  That case is decided first, without forming the scale.
RECURSIVE get_scalars_from(_, _)
get_scalars_from(abs_max, shift) ==
    IF shift <= -10 THEN NoScalars
    ELSE IF AtLeastTimes10(abs_max, shift, 65535 * S16_MAX)
         THEN get_scalars_from(abs_max, shift - 1)
    ELSE LET x == Scale10(abs_max, shift)              \* abs_max / 10**-shift
             scale == Rat(x.n, x.d * S16_MAX)
             f == limit_denominator(scale, S16_MAX)
         IN  IF f.n = 0 THEN get_scalars_from(abs_max, shift - 1)
             ELSE IF S16_MIN <= f.n /\ f.n <= S16_MAX THEN Scalars(shift, f.n, f.d)
             ELSE LET scalar == S16_MAX               \* round(scalar * adj)
                      divisor == Sign(f.n) * RoundHalfEven(f.d * S16_MAX, Abs(f.n))
                  IN  IF /\ S16_MIN <= divisor /\ divisor <= S16_MAX /\ divisor # 0
                         \* enc_max <= 2**15-1
                         /\ x.n * divisor <= S16_MAX * S16_MAX * x.d
                         \* error <= 0.1, i.e. 32767^2 / (divisor * x) <= 11/10
                         /\ S16_MAX * S16_MAX * x.d - x.n * divisor
                               <= (x.n * divisor) \div 10
                         THEN Scalars(shift, scalar, divisor)
                         ELSE get_scalars_from(abs_max, shift - 1)

\* get_scalars(abs_max)
get_scalars(abs_max) ==
    IF abs_max.n = 0 THEN Scalars(0, 1, 1) ELSE get_scalars_from(abs_max, 10)

RatAbs(x) == [n |-> Abs(x.n), d |-> x.d]

\* max(v_int.max(), v_int.min(), key=abs): the first of the two on a tie
abs_max_of(v) ==
    LET vals == {v[k] : k \in 1..Len(v)}
        mx == CHOOSE x \in vals : \A y \in vals : RatLeq(y, x)
        mn == CHOOSE x \in vals : \A y \in vals : RatLeq(x, y)
    IN  IF RatLess(RatAbs(mx), RatAbs(mn)) THEN mn ELSE mx

\* the integer part of x, towards zero
Trunc(x) == Sign(x.n) * (Abs(x.n) \div x.d)

\* the cast of an integral float to np.int16; out of range the C cast is
\* undefined: builds either wrap or saturate
ToInt16(t, cast) ==
    IF S16_MIN <= t /\ t <= S16_MAX THEN t
    ELSE IF cast = "wrap" THEN ((t - S16_MIN) % 65536) + S16_MIN
    ELSE IF t < S16_MIN THEN S16_MIN ELSE S16_MAX

Casts == {"wrap", "saturate"}

\* v / 10**-shift / scalar  (the divisor left out)
EncodedValueNoDivisor(v, shift, scalar, divisor) ==
    LET x == Scale10(v, shift)
    IN  Rat(x.n, x.d * scalar)

\* v / 10**-shift / scalar * divisor
EncodedValue(v, shift, scalar, divisor) ==
    LET x == Scale10(v, shift)
    IN  Rat(x.n * divisor, x.d * scalar)

\* v * 10**-shift * scalar / divisor
DecodedValue(e, shift, scalar, divisor) ==
    Scale10(Rat(e * scalar, divisor), -shift)

\* a channel as parse() returns it: samples vs[k] at timestamps 0, 1, ...
ParsedChannel(vs) ==
    LET ch == Resampled([NewChannel(1) EXCEPT
                            !.points = [k \in 1..Len(vs) |-> <<k - 1, vs[k]>>]])
    IN  [ch EXCEPT !.sample_rate = SampleRate(ch)]

InitQ ==
    /\ \/ \E n \in 2..MaxGrid : \E vs \in [1..n -> QValues] : qch = ParsedChannel(vs)
       \/ qch = NewChannel(1)          \* a channel that received no packet
    /\ decoded = <<>> /\ qpc = "parsed"
    /\ EscOff /\ DecOff

\* encode_channel(ch)
EncodeChannel ==
    /\ qpc = "parsed"
    /\ IF qch.v_enc.some
          THEN qpc' = "encoded" /\ qch' = qch
       ELSE IF ~qch.v_int.some
          THEN qpc' = "encoded" /\ qch' = [qch EXCEPT !.v_enc = Some(<<>>)]
       ELSE LET v == qch.v_int.val
                sc == get_scalars(abs_max_of(v))
            IN  IF ~sc.ok
                   THEN qpc' = "encode_raised" /\ qch' = qch
                   ELSE /\ qpc' = "encoded"
                        /\ \E cast \in Casts :
                             qch' = [qch EXCEPT
                                       !.shift = sc.shift, !.scalar = sc.scalar,
                                       !.divisor = sc.divisor,
                                       !.v_enc = Some([k \in 1..Len(v) |->
                                           ToInt16(Trunc(EncodedValue(v[k], sc.shift,
                                                           sc.scalar, sc.divisor)), cast)])]
    /\ UNCHANGED <<decoded, escVars, decVars>>

\* plot(ch) after its call of encode_channel: the decoded series.  plot()
\* reads len(v_raw) first, so it only gets here for a channel with samples.
PlotDecode ==
    /\ qpc = "encoded"
    /\ qch.v_raw.some
    /\ decoded' = [k \in 1..Len(qch.v_enc.val) |->
                     DecodedValue(qch.v_enc.val[k], qch.shift, qch.scalar, qch.divisor)]
    /\ qpc' = "plotted"
    /\ UNCHANGED <<qch, escVars, decVars>>

NextQ == EncodeChannel \/ PlotDecode

SpecQ == InitQ /\ [][NextQ]_vars

(***************************************************************************)
(* Properties of the quantizer                                             *)
(***************************************************************************)
\* |dec - v| / max(|v|, eps) <= 10 %, for eps below every non-zero |v|
Within10Percent(dec, v) ==
    IF v.n = 0 THEN dec.n = 0
    ELSE 10 * Abs(dec.n * v.d - v.n * dec.d) <= Abs(v.n) * dec.d

\* C9 as stated: once a channel is encoded and decoded again, every decoded
\* value is within 10 % of the interpolated value it came from.
C9_Within10PercentAll ==
    qpc = "plotted" =>
        \A k \in 1..Len(decoded) : Within10Percent(decoded[k], qch.v_int.val[k])

\* C9, amended: the decoded value is within 10 % of the interpolated value
\* at every grid point whose encoded magnitude is at least 10; smaller
\* encoded values carry no such bound.
C9_Within10PercentLarge ==
    qpc = "plotted" =>
        \A k \in 1..Len(decoded) :
            Abs(qch.v_enc.val[k]) >= 10 =>
                Within10Percent(decoded[k], qch.v_int.val[k])

\* a decoded series with an inexact value of encoded magnitude >= 10 and a
\* value of smaller encoded magnitude next to it
C9_Witness ==
    /\ qpc = "plotted"
    /\ \E k \in 1..Len(decoded) :
         /\ Abs(qch.v_enc.val[k]) >= 10
         /\ decoded[k] # qch.v_int.val[k]
    /\ \E k \in 1..Len(decoded) :
         /\ qch.v_int.val[k].n # 0
         /\ Abs(qch.v_enc.val[k]) < 10

====
